---- MODULE Spec2Model ----
(***************************************************************************)
(* Staleness-gated ETL pipeline and serving handlers of app.py.            *)
(*                                                                         *)
(* The handlers are coroutines on one event loop: control passes to        *)
(* another request only at an `await` (the four store fetches).  All file  *)
(* work between two awaits is one atomic step.                             *)
(***************************************************************************)
EXTENDS Integers, Sequences, FiniteSets, Bags, TLC

(***************************************************************************)
(* Wall clock.  A datetime is a number of ticks since midnight of          *)
(* 01/01/EpochYear; a tick is 1/TicksPerSec second, so that datetime.now() *)
(* carries a sub-second part that strftime("%d/%m/%Y %H:%M:%S") drops.     *)
(***************************************************************************)
TicksPerSec == 2
EpochYear == 2026
SecsPerHour == 60 * 60
SecsPerDay == 24 * SecsPerHour

IsLeap(y) == (y % 4 = 0 /\ y % 100 # 0) \/ y % 400 = 0
DaysInYear(y) == IF IsLeap(y) THEN 366 ELSE 365
DaysInMonth(y, m) ==
    IF m = 2 THEN (IF IsLeap(y) THEN 29 ELSE 28)
    ELSE IF m \in {4, 6, 9, 11} THEN 30 ELSE 31

RECURSIVE DaysBeforeYear(_)
DaysBeforeYear(y) ==
    IF y = EpochYear THEN 0
    ELSE IF y > EpochYear THEN DaysBeforeYear(y - 1) + DaysInYear(y - 1)
    ELSE DaysBeforeYear(y + 1) - DaysInYear(y)

RECURSIVE DaysBeforeMonth(_, _)
DaysBeforeMonth(y, m) ==
    IF m = 1 THEN 0 ELSE DaysBeforeMonth(y, m - 1) + DaysInMonth(y, m - 1)

\* <<year, day of year (0-based)>> of a day number (days >= 0)
RECURSIVE YearOfDay(_, _)
YearOfDay(days, y) ==
    IF days < DaysInYear(y) THEN <<y, days>>
    ELSE YearOfDay(days - DaysInYear(y), y + 1)

\* <<month, day of month (1-based)>> of a 0-based day of year
RECURSIVE MonthOfDay(_, _, _)
MonthOfDay(y, yday, m) ==
    IF yday < DaysInMonth(y, m) THEN <<m, yday + 1>>
    ELSE MonthOfDay(y, yday - DaysInMonth(y, m), m + 1)

\* datetime.strftime("%d/%m/%Y %H:%M:%S"): the fields in the order written,
\* <<day, month, year, hour, minute, second>>; the sub-second part is lost.
strftime(t) ==
    LET secs == t \div TicksPerSec
        days == secs \div SecsPerDay
        sod  == secs % SecsPerDay
        yd   == YearOfDay(days, EpochYear)
        md   == MonthOfDay(yd[1], yd[2], 1)
    IN  << md[2], md[1], yd[1],
           sod \div SecsPerHour,
           (sod % SecsPerHour) \div 60,
           sod % 60 >>

\* Whether datetime.strptime(s, "%d/%m/%Y %H:%M:%S") accepts the fields.
strptime_ok(s) ==
    /\ Len(s) = 6
    /\ s[3] >= 1
    /\ s[2] \in 1..12
    /\ s[1] >= 1 /\ s[1] <= DaysInMonth(s[3], s[2])
    /\ s[4] \in 0..23
    /\ s[5] \in 0..59
    /\ s[6] \in 0..59

\* datetime.strptime(s, "%d/%m/%Y %H:%M:%S") as ticks (whole seconds).
strptime(s) ==
    ( (DaysBeforeYear(s[3]) + DaysBeforeMonth(s[3], s[2]) + (s[1] - 1)) * SecsPerDay
      + s[4] * SecsPerHour + s[5] * 60 + s[6] ) * TicksPerSec

(***************************************************************************)
(* data/log.txt.  Its text is modelled as what precedes the timestamp      *)
(* (prefix) followed by the timestamp fields (stamp).                      *)
(***************************************************************************)
LogPrefix == "Last updated: "
NoLog == [exists |-> FALSE, prefix |-> "", stamp |-> <<>>]
EmptyLog == [exists |-> TRUE, prefix |-> "", stamp |-> <<>>]

\* timedelta(hours=1), in ticks
StaleAfter == 1 * SecsPerHour * TicksPerSec

\* A variant that forgets the write after truncating the file.
update_log_truncate_only(t) == EmptyLog

\* update_log(): create if missing, then open "w" and write prefix + strftime(now)
update_log(t) ==
    [exists |-> TRUE, prefix |-> LogPrefix, stamp |-> strftime(t)]

\* A variant with the comparison written >= instead of >.
load_log_ge(f, t) ==
    IF ~f.exists THEN [error |-> "FileNotFoundError", stale |-> FALSE]
    ELSE IF f.prefix # LogPrefix THEN [error |-> "IndexError", stale |-> FALSE]
    ELSE IF ~strptime_ok(f.stamp) THEN [error |-> "ValueError", stale |-> FALSE]
    ELSE [error |-> "", stale |-> (t - strptime(f.stamp) >= StaleAfter)]

\* load_log(): open(...,"r") raises when the file is missing; split(...)[1]
\* raises when the prefix is not in the text; strptime raises on a bad stamp;
\* otherwise now - parsed > 1 hour.
load_log(f, t) ==
    IF ~f.exists THEN [error |-> "FileNotFoundError", stale |-> FALSE]
    ELSE IF f.prefix # LogPrefix THEN [error |-> "IndexError", stale |-> FALSE]
    ELSE IF ~strptime_ok(f.stamp) THEN [error |-> "ValueError", stale |-> FALSE]
    ELSE [error |-> "", stale |-> (t - strptime(f.stamp) > StaleAfter)]


(***************************************************************************)
(* Tables.  A DataFrame is [cols, rows]: the column names in order and the *)
(* rows as tuples aligned with cols.  Every cell is a string; NaN is the   *)
(* missing value.  A CSV file is [exists, cols, rows] plus bookkeeping     *)
(* that is not in the file: run (the pipeline run that wrote it), from     *)
(* (the runs whose files it was computed from) and at (when it was         *)
(* written).                                                               *)
(***************************************************************************)
NaN == "NaN"

SeqToSet(s) == {s[i] : i \in DOMAIN s}
IndexOf(s, x) == CHOOSE i \in DOMAIN s : s[i] = x

RECURSIVE SelectIdx(_, _, _)
\* the sub-sequence of s at the indices >= i that are in keep
SelectIdx(s, keep, i) ==
    IF i > Len(s) THEN <<>>
    ELSE (IF i \in keep THEN <<s[i]>> ELSE <<>>) \o SelectIdx(s, keep, i + 1)

RECURSIVE Flatten(_)
Flatten(ss) == IF ss = <<>> THEN <<>> ELSE Head(ss) \o Flatten(Tail(ss))

NoFile == [exists |-> FALSE, cols |-> <<>>, rows |-> <<>>,
           run |-> 0, from |-> {}, at |-> 0]

\* The schemas of the four collections (field order of the documents).
InteractionFields == <<"_id", "customerId", "productId", "interactionType">>
CustomerFields ==
    <<"_id", "customerFirstName", "customerLastName", "email", "customerPhoneNumber">>
ProductFields ==
    <<"_id", "productName", "price", "productImage", "description",
      "productCatogoryId", "AvailableQuantity">>
CategoryFields == <<"_id", "productCatrgoryName", "productCategoryId">>

\* A cell is kept as the text to_csv writes for it.  The integers and the
\* other numbers among the texts of the tables here, as pandas parses them
\* (a leading + is accepted): an int64 is written in digits, a float64 with
\* its fraction.
IntFields ==
    ("1" :> 1) @@ ("2" :> 2) @@ ("3" :> 3) @@ ("94" :> 94) @@ ("+94" :> 94)
    @@ ("100" :> 100)
FloatFields ==
    ("1.0" :> "1.0") @@ ("2.0" :> "2.0") @@ ("3.0" :> "3.0") @@ ("94.0" :> "94.0")
    @@ ("100.0" :> "100.0") @@ ("1.99" :> "1.99")

\* the text of a number as an int64, and as a float64
AsInt == [c \in DOMAIN IntFields |-> ToString(IntFields[c])]
AsFloat ==
    [c \in DOMAIN IntFields \cup DOMAIN FloatFields |->
       IF c \in DOMAIN IntFields THEN ToString(IntFields[c]) \o ".0" ELSE FloatFields[c]]

\* The fields of the documents that hold a number (the others hold an
\* ObjectId or a string).
NumberFields == {"interactionType", "price", "AvailableQuantity", "productCategoryId"}

\* pd.DataFrame(docs): the columns are the keys the documents carry, a key a
\* document lacks is NaN there; no documents, no columns.  A column of
\* numbers with a NaN, or with a number that is no integer, is float64.
DataFrame(docs, fields) ==
    LET cols == SelectSeq(fields, LAMBDA c : \E i \in DOMAIN docs : c \in DOMAIN docs[i])
        float(c) ==
            /\ c \in NumberFields
            /\ \E i \in DOMAIN docs : c \notin DOMAIN docs[i] \/ docs[i][c] \notin DOMAIN IntFields
        floats == {c \in SeqToSet(cols) : float(c)}
    IN  [cols |-> cols,
         rows |-> [i \in DOMAIN docs |->
                     [j \in DOMAIN cols |->
                        IF cols[j] \notin DOMAIN docs[i] THEN NaN
                        ELSE IF cols[j] \in floats THEN AsFloat[docs[i][cols[j]]]
                        ELSE docs[i][cols[j]]]]]

\* df.to_csv(path, index=False): NaN is written as the empty field.
to_csv(df, run, from, t) ==
    [exists |-> TRUE, cols |-> df.cols,
     rows |-> [i \in DOMAIN df.rows |->
                 [j \in DOMAIN df.cols |->
                    IF df.rows[i][j] = NaN THEN "" ELSE df.rows[i][j]]],
     run |-> run, from |-> from, at |-> t]

\* pd.read_csv(path): raises when the file is missing or has no header; a
\* field that stands for a missing value is read as NaN, the others by the
\* type of their column.
read_csv_error(f) ==
    IF ~f.exists THEN "FileNotFoundError"
    ELSE IF f.cols = <<>> THEN "EmptyDataError"
    ELSE ""

\* The fields read_csv takes for a missing value.
NaValues ==
    {"", "#N/A", "#N/A N/A", "#NA", "-1.#IND", "-1.#QNAN", "-NaN", "-nan", "1.#IND",
     "1.#QNAN", "<NA>", "N/A", "NA", "NULL", "NaN", "None", "n/a", "nan", "null"}

\* The type read_csv infers for column j: int64 when every field is an
\* integer, float64 when every field is a number or missing, else text.
dtype(f, j) ==
    LET fields == { f.rows[i][j] : i \in DOMAIN f.rows }
    IN  IF fields = {} THEN "object"
        ELSE IF fields \subseteq DOMAIN AsInt THEN "int64"
        ELSE IF fields \subseteq (DOMAIN AsFloat \cup NaValues) THEN "float64"
        ELSE "object"

read_csv(f) ==
    LET types == [j \in DOMAIN f.cols |-> dtype(f, j)]
    IN  [cols |-> f.cols,
         rows |-> [i \in DOMAIN f.rows |->
                     [j \in DOMAIN f.cols |->
                        IF f.rows[i][j] \in NaValues THEN NaN
                        ELSE IF types[j] = "int64" THEN AsInt[f.rows[i][j]]
                        ELSE IF types[j] = "float64" THEN AsFloat[f.rows[i][j]]
                        ELSE f.rows[i][j]]]]

\* pd.merge(l, r, left_on=lk, right_on=rk): inner join in the order of the
\* left rows; a column name both sides carry gets the suffixes _x and _y.
merge_error(l, r, lk, rk) ==
    IF lk \notin SeqToSet(l.cols) \/ rk \notin SeqToSet(r.cols) THEN "KeyError" ELSE ""

merge(l, r, lk, rk) ==
    LET both == SeqToSet(l.cols) \cap SeqToSet(r.cols)
        li == IndexOf(l.cols, lk)
        ri == IndexOf(r.cols, rk)
    IN  [cols |-> [j \in DOMAIN l.cols |->
                     IF l.cols[j] \in both THEN l.cols[j] \o "_x" ELSE l.cols[j]]
                  \o [j \in DOMAIN r.cols |->
                     IF r.cols[j] \in both THEN r.cols[j] \o "_y" ELSE r.cols[j]],
         rows |-> Flatten([i \in DOMAIN l.rows |->
                     Flatten([k \in DOMAIN r.rows |->
                        IF l.rows[i][li] = r.rows[k][ri]
                        THEN << l.rows[i] \o r.rows[k] >> ELSE <<>>])])]

\* df.drop(columns=names): raises when a name is not a column.
drop_error(df, names) ==
    IF names \subseteq SeqToSet(df.cols) THEN "" ELSE "KeyError"

drop(df, names) ==
    LET keep == {j \in DOMAIN df.cols : df.cols[j] \notin names}
    IN  [cols |-> SelectIdx(df.cols, keep, 1),
         rows |-> [i \in DOMAIN df.rows |-> SelectIdx(df.rows[i], keep, 1)]]

\* df.rename(columns={old: new}): a name that is no column is ignored.
rename(df, old, new) ==
    [cols |-> [j \in DOMAIN df.cols |->
                       IF df.cols[j] = old THEN new ELSE df.cols[j]],
     rows |-> df.rows]

NonNull(df, j) == Cardinality({i \in DOMAIN df.rows : df.rows[i][j] # NaN})

\* A variant of the operator below with the threshold compared by > .
dropna_cols_gt(df) ==
    LET keep == {j \in DOMAIN df.cols : 4 * NonNull(df, j) > Len(df.rows)}
    IN  [cols |-> SelectIdx(df.cols, keep, 1),
         rows |-> [i \in DOMAIN df.rows |-> SelectIdx(df.rows[i], keep, 1)]]

\* df.dropna(thresh=len(df) * 0.25, axis=1): keep the columns with at least
\* thresh non-NaN cells (count >= len / 4, compared without rounding).
dropna_cols(df) ==
    LET keep == {j \in DOMAIN df.cols : 4 * NonNull(df, j) >= Len(df.rows)}
    IN  [cols |-> SelectIdx(df.cols, keep, 1),
         rows |-> [i \in DOMAIN df.rows |-> SelectIdx(df.rows[i], keep, 1)]]

\* df.dropna(): drop the rows holding a NaN.
dropna_rows(df) ==
    [cols |-> df.cols,
     rows |-> SelectSeq(df.rows, LAMBDA r : \A j \in DOMAIN r : r[j] # NaN)]

\* df.drop_duplicates(): keep the first of equal rows; a frame with no column
\* or no row (df.empty) is returned as it is.
drop_duplicates(df) ==
    IF df.cols = <<>> \/ df.rows = <<>> THEN df
    ELSE [cols |-> df.cols,
          rows |-> SelectIdx(df.rows,
                      {i \in DOMAIN df.rows :
                         \A k \in 1..(i - 1) : df.rows[k] # df.rows[i]}, 1)]


(***************************************************************************)
(* The files under data/ and the pipeline stages.  A stage yields          *)
(* [error, files]: the exception it raises ("" when none) and the files    *)
(* afterwards (a stage that raises has written nothing).                   *)
(***************************************************************************)
RawNames == <<"interactions", "customers", "products", "prodoutCategory">>

NoFiles ==
    [interactions |-> NoFile, customers |-> NoFile, products |-> NoFile,
     prodoutCategory |-> NoFile, aggregated |-> NoFile, processed |-> NoFile,
     pre_processed |-> NoFile]

FirstError(es) ==
    IF \A i \in DOMAIN es : es[i] = "" THEN ""
    ELSE es[CHOOSE i \in DOMAIN es : es[i] # "" /\ \A k \in 1..(i - 1) : es[k] = ""]

\* The three merges of aggregate_data with the clean-up after the first one.
merge_customers(interactions, customers) ==
    rename(drop(merge(interactions, customers, "customerId", "_id"), {"_id_y"}),
           "_id_x", "_id")

aggregate_data(fs, run, t) ==
    LET e0 == FirstError(<<read_csv_error(fs.interactions), read_csv_error(fs.customers),
                           read_csv_error(fs.products), read_csv_error(fs.prodoutCategory)>>)
        interactions == read_csv(fs.interactions)
        customers == read_csv(fs.customers)
        products == read_csv(fs.products)
        prodoutCategory == read_csv(fs.prodoutCategory)
        e1 == IF merge_error(interactions, customers, "customerId", "_id") # ""
              THEN merge_error(interactions, customers, "customerId", "_id")
              ELSE drop_error(merge(interactions, customers, "customerId", "_id"),
                              {"_id_y"})
        df1 == merge_customers(interactions, customers)
        e2 == merge_error(df1, products, "productId", "_id")
        df2 == merge(df1, products, "productId", "_id")
        e3 == merge_error(df2, prodoutCategory, "productCatogoryId", "_id")
        df3 == merge(df2, prodoutCategory, "productCatogoryId", "_id")
        from == {fs.interactions.run, fs.customers.run, fs.products.run,
                 fs.prodoutCategory.run}
    IN  IF e0 # "" THEN [error |-> e0, files |-> fs]
        ELSE IF e1 # "" THEN [error |-> e1, files |-> fs]
        ELSE IF e2 # "" THEN [error |-> e2, files |-> fs]
        ELSE IF e3 # "" THEN [error |-> e3, files |-> fs]
        ELSE [error |-> "",
              files |-> [fs EXCEPT !.aggregated = to_csv(df3, run, from, t)]]

\* A variant of the list below that names the interaction's _id_x as well.
DropList_with_id_x ==
    {"productCatogoryId", "_id", "AvailableQuantity", "productImage", "price", "_id_y",
     "customerPhoneNumber", "email", "customerFirstName", "customerLastName", "_id_x"}

\* The columns process_data drops.
DropList ==
    {"productCatogoryId", "_id", "AvailableQuantity", "productImage", "price", "_id_y",
     "customerPhoneNumber", "email", "customerFirstName", "customerLastName"}

\* A variant that drops the listed columns that are there and ignores the rest.
process_data_ignore_missing(fs, run, t) ==
    LET e0 == read_csv_error(fs.aggregated)
        df == read_csv(fs.aggregated)
        from == {fs.aggregated.run} \cup fs.aggregated.from
    IN  IF e0 # "" THEN [error |-> e0, files |-> fs]
        ELSE [error |-> "",
              files |-> [fs EXCEPT !.processed = to_csv(drop(df, DropList), run, from, t)]]

process_data(fs, run, t) ==
    LET e0 == read_csv_error(fs.aggregated)
        df == read_csv(fs.aggregated)
        e1 == drop_error(df, DropList)
        from == {fs.aggregated.run} \cup fs.aggregated.from
    IN  IF e0 # "" THEN [error |-> e0, files |-> fs]
        ELSE IF e1 # "" THEN [error |-> e1, files |-> fs]
        ELSE [error |-> "",
              files |-> [fs EXCEPT !.processed = to_csv(drop(df, DropList), run, from, t)]]

\* A variant that leaves out drop_duplicates.
pre_process_no_dedup(fs, run, t) ==
    LET e0 == read_csv_error(fs.processed)
        df == read_csv(fs.processed)
        out == dropna_rows(dropna_rows(dropna_cols(df)))
        from == {fs.processed.run} \cup fs.processed.from
    IN  IF e0 # "" THEN [error |-> e0, files |-> fs]
        ELSE [error |-> "",
              files |-> [fs EXCEPT !.pre_processed = to_csv(out, run, from, t)]]

pre_process(fs, run, t) ==
    LET e0 == read_csv_error(fs.processed)
        df == read_csv(fs.processed)
        out == drop_duplicates(dropna_rows(dropna_rows(dropna_cols(df))))
        from == {fs.processed.run} \cup fs.processed.from
    IN  IF e0 # "" THEN [error |-> e0, files |-> fs]
        ELSE [error |-> "",
              files |-> [fs EXCEPT !.pre_processed = to_csv(out, run, from, t)]]

\* The four DataFrame(...).to_csv(...) lines of a refreshing handler:
\* got is the four fetched document lists, in the order fetched.
write_raw(fs, got, run, t) ==
    [fs EXCEPT
       !.interactions = to_csv(DataFrame(got[1], InteractionFields), run, {}, t),
       !.customers = to_csv(DataFrame(got[2], CustomerFields), run, {}, t),
       !.products = to_csv(DataFrame(got[3], ProductFields), run, {}, t),
       !.prodoutCategory = to_csv(DataFrame(got[4], CategoryFields), run, {}, t)]

\* A variant that leaves out the call of update_log().
refresh_no_log(fs, lg, got, run, t) ==
    LET f1 == write_raw(fs, got, run, t)
        a == aggregate_data(f1, run, t)
        p == process_data(a.files, run, t)
        c == pre_process(p.files, run, t)
    IN  IF a.error # "" THEN
            [error |-> a.error, files |-> f1, log |-> lg, events |-> <<"extract">>]
        ELSE IF p.error # "" THEN
            [error |-> p.error, files |-> a.files, log |-> lg,
             events |-> <<"extract", "join">>]
        ELSE IF c.error # "" THEN
            [error |-> c.error, files |-> p.files, log |-> lg,
             events |-> <<"extract", "join", "project">>]
        ELSE
            [error |-> "", files |-> c.files, log |-> lg,
             events |-> <<"extract", "join", "project", "clean">>]

\* A variant that calls update_log() before the stages instead of after.
refresh_log_first(fs, lg, got, run, t) ==
    LET f1 == write_raw(fs, got, run, t)
        a == aggregate_data(f1, run, t)
        p == process_data(a.files, run, t)
        c == pre_process(p.files, run, t)
    IN  IF a.error # "" THEN
            [error |-> a.error, files |-> f1, log |-> update_log(t),
             events |-> <<"log", "extract">>]
        ELSE IF p.error # "" THEN
            [error |-> p.error, files |-> a.files, log |-> update_log(t),
             events |-> <<"log", "extract", "join">>]
        ELSE IF c.error # "" THEN
            [error |-> c.error, files |-> p.files, log |-> update_log(t),
             events |-> <<"log", "extract", "join", "project">>]
        ELSE
            [error |-> "", files |-> c.files, log |-> update_log(t),
             events |-> <<"log", "extract", "join", "project", "clean">>]

\* A variant that catches what a stage raises and goes on with the next one.
refresh_ignore_errors(fs, lg, got, run, t) ==
    LET f1 == write_raw(fs, got, run, t)
        a == aggregate_data(f1, run, t)
        p == process_data(a.files, run, t)
        c == pre_process(p.files, run, t)
    IN  [error |-> "", files |-> c.files, log |-> update_log(t),
         events |-> <<"extract", "join", "project", "clean", "log">>]

\* What the refreshing handlers run once the fourth fetch has returned, up to
\* and including update_log(): the four to_csv, aggregate_data(),
\* process_data(), pre_process(), update_log().  Yields [error, files, log,
\* events], events being the stages that completed, in order; a stage after
\* one that raised is not run.
refresh(fs, lg, got, run, t) ==
    LET f1 == write_raw(fs, got, run, t)
        a == aggregate_data(f1, run, t)
        p == process_data(a.files, run, t)
        c == pre_process(p.files, run, t)
    IN  IF a.error # "" THEN
            [error |-> a.error, files |-> f1, log |-> lg, events |-> <<"extract">>]
        ELSE IF p.error # "" THEN
            [error |-> p.error, files |-> a.files, log |-> lg,
             events |-> <<"extract", "join">>]
        ELSE IF c.error # "" THEN
            [error |-> c.error, files |-> p.files, log |-> lg,
             events |-> <<"extract", "join", "project">>]
        ELSE
            [error |-> "", files |-> c.files, log |-> update_log(t),
             events |-> <<"extract", "join", "project", "clean", "log">>]

\* get_rec(user_id, num_of_rec): the engine reads data/pre_processed.csv when
\* it is called; what it read is all the model keeps of the call.
get_rec(fs) == fs.pre_processed

(***************************************************************************)
(* The store: the four collections, as the document lists find() returns.  *)
(***************************************************************************)
Interaction(id, c, p, ty) ==
    ("_id" :> id) @@ ("customerId" :> c) @@ ("productId" :> p) @@ ("interactionType" :> ty)
\* an interaction document stored without its interactionType field
InteractionNoType(id, c, p) ==
    ("_id" :> id) @@ ("customerId" :> c) @@ ("productId" :> p)
Customer(id) ==
    ("_id" :> id) @@ ("customerFirstName" :> "Ann") @@ ("customerLastName" :> "Lee")
    @@ ("email" :> "a@x") @@ ("customerPhoneNumber" :> "+94")
Product(id, k) ==
    ("_id" :> id) @@ ("productName" :> "Apple") @@ ("price" :> "1.99")
    @@ ("productImage" :> "img") @@ ("description" :> "red") @@ ("productCatogoryId" :> k)
    @@ ("AvailableQuantity" :> "100")
\* a product document stored without its AvailableQuantity field
ProductNoQuantity(id, k) ==
    ("_id" :> id) @@ ("productName" :> "Apple") @@ ("price" :> "1.99")
    @@ ("productImage" :> "img") @@ ("description" :> "red") @@ ("productCatogoryId" :> k)
Category(id) ==
    ("_id" :> id) @@ ("productCatrgoryName" :> "Fruits") @@ ("productCategoryId" :> "1")

\* What the collections hold, before and after the application's other
\* services change them: afterwards the product documents carry no
\* AvailableQuantity.  The third interaction is of a customer that is gone.
Stores ==
    << [interactions |-> <<Interaction("i1", "c1", "p1", "1"), Interaction("i2", "c2", "p1", "2"),
                           Interaction("i3", "c9", "p1", "3")>>,
        customers |-> <<Customer("c1"), Customer("c2")>>,
        products |-> <<Product("p1", "k1")>>,
        prodoutCategory |-> <<Category("k1")>>],
       [interactions |-> <<Interaction("i1", "c1", "p1", "1"), Interaction("i2", "c2", "p1", "2"),
                           Interaction("i3", "c9", "p1", "3")>>,
        customers |-> <<Customer("c1"), Customer("c2")>>,
        products |-> <<ProductNoQuantity("p1", "k1")>>,
        prodoutCategory |-> <<Category("k1")>>] >>

(***************************************************************************)
(* Bounds of the model.                                                    *)
(***************************************************************************)
MaxRuns == 2         \* requests that reach an await in a behaviour: each makes
                     \* a pipeline run, and the runs are numbered as they end
MaxAdvance == 1      \* clock advances in a behaviour
MaxInteractions == 3 \* interaction documents a fetch returns, in the pipeline alone
MaxRows == 5         \* rows of a processed.csv, in the cleaning alone

\* 31/01/EpochYear 23:30:00, so that an hour later the date has changed
StartTime == (30 * SecsPerDay + 23 * SecsPerHour + 30 * 60) * TicksPerSec

\* How far the clock moves in one advance: the hour, and a second more.
Deltas == {StaleAfter, StaleAfter + TicksPerSec}
\* The clock stops here.
MaxClock == StartTime + MaxAdvance * (StaleAfter + TicksPerSec)

\* What data/log.txt may hold when the process starts: nothing, an empty
\* file, text without the prefix, a stamp written year first.
InitLogs ==
    { NoLog, EmptyLog,
      [exists |-> TRUE, prefix |-> "updated ", stamp |-> strftime(StartTime)],
      [exists |-> TRUE, prefix |-> LogPrefix,
       stamp |-> <<EpochYear, 1, 31, 23, 30, 0>>] }

VARIABLES
    now,        \* datetime.now(), in ticks
    store,      \* index in Stores of what the collections hold
    log,        \* data/log.txt
    files,      \* the seven CSV files under data/
    req,        \* the requests that reached an await, a bag: those at an
                \* await, with what they have fetched, and those that ended
    last,       \* the step just taken: the load_log() call made in it, the
                \* request that ended in it, if any, and how
    stampedAt   \* when update_log() last ran (-1: never), not in the file

vars == <<now, store, log, files, req, last, stampedAt>>

\* The outcome of load_log() in a request, with what it was called on.
NoCheck == [done |-> FALSE, at |-> 0, seen |-> NoLog, stampedAt |-> -1,
            error |-> "", stale |-> FALSE]
NoEngine == [called |-> FALSE, table |-> NoFile]

\* A request not started yet, and one that ended.
Idle == [pc |-> "idle", pol |-> "", got |-> <<>>]
Done == [Idle EXCEPT !.pc = "ended"]

\* a request of policy pol at its first await
AtFirstAwait(pol) == [Idle EXCEPT !.pc = "fetch", !.pol = pol]

\* No request ended.
NoLast == [pol |-> "", run |-> 0, check |-> NoCheck, events |-> <<>>,
           engine |-> NoEngine, error |-> ""]

Started == BagCardinality(req)
Ended == CopiesIn(Done, req)

\* req with request r gone on to be request q
Becomes(r, q) == (req (-) SetToBag({r})) (+) SetToBag({q})

Init ==
    /\ now = StartTime
    /\ store = 1
    /\ log \in InitLogs
    /\ files = NoFiles
    /\ req = EmptyBag
    /\ last = NoLast
    /\ stampedAt = -1

\* A variant of the handler below that returns without calling update_log().
get_recommendation_no_log ==
    /\ last' = [NoLast EXCEPT !.pol = "serve",
                              !.engine = [called |-> TRUE, table |-> get_rec(files)],
                              !.events = <<"engine">>]
    /\ UNCHANGED <<now, store, log, files, req, stampedAt>>

\* GET /recommendation/{user_id}: no await, one step.
get_recommendation ==
    /\ last' = [NoLast EXCEPT !.pol = "serve",
                              !.engine = [called |-> TRUE, table |-> get_rec(files)],
                              !.events = <<"engine", "log">>]
    /\ log' = update_log(now)
    /\ stampedAt' = now
    /\ UNCHANGED <<now, store, files, req>>

\* GET /recommendation-load/{user_id} up to its first await.
get_recommendation_load ==
    /\ Started < MaxRuns
    /\ req' = req (+) SetToBag({AtFirstAwait("load")})
    /\ last' = NoLast
    /\ UNCHANGED <<now, store, log, files, stampedAt>>

\* GET /load-data up to its first await.
load_data ==
    /\ Started < MaxRuns
    /\ req' = req (+) SetToBag({AtFirstAwait("load_data")})
    /\ last' = NoLast
    /\ UNCHANGED <<now, store, log, files, stampedAt>>

\* GET /recommendation-load-update/{user_id} up to its first await, or to
\* its end when load_log() raises or returns False.
get_recommendation_load_update ==
    /\ LET res == load_log(log, now)
           chk == [done |-> TRUE, at |-> now, seen |-> log, stampedAt |-> stampedAt,
                   error |-> res.error, stale |-> res.stale]
           end == [NoLast EXCEPT !.pol = "load_update", !.check = chk]
       IN  IF res.error # "" THEN
               /\ last' = [end EXCEPT !.error = res.error]
               /\ UNCHANGED req
           ELSE IF res.stale THEN
               /\ Started < MaxRuns
               /\ req' = req (+) SetToBag({AtFirstAwait("load_update")})
               /\ last' = [NoLast EXCEPT !.check = chk]
           ELSE
               /\ last' = [end EXCEPT !.engine = [called |-> TRUE,
                                                  table |-> get_rec(files)],
                                      !.events = <<"engine">>]
               /\ UNCHANGED req
    /\ UNCHANGED <<now, store, log, files, stampedAt>>

\* One of the first three `await db[...].find().to_list(...)` returns.
FetchReturns(r) ==
    /\ r.pc = "fetch"
    /\ Len(r.got) < 3
    /\ req' = Becomes(r, [r EXCEPT !.got =
                             Append(@, Stores[store][RawNames[Len(@) + 1]])])
    /\ last' = NoLast
    /\ UNCHANGED <<now, store, log, files, stampedAt>>

\* An awaited fetch raises (the store is unreachable): the handler ends.
FetchRaises(r) ==
    /\ r.pc = "fetch"
    /\ last' = [NoLast EXCEPT !.pol = r.pol, !.run = Ended + 1,
                              !.error = "SourceUnavailable"]
    /\ req' = Becomes(r, Done)
    /\ UNCHANGED <<now, store, log, files, stampedAt>>

\* A variant of the step below that calls get_rec before the stages.
Refresh_engine_first(r) ==
    /\ r.pc = "fetch"
    /\ Len(r.got) = 3
    /\ \E res \in {refresh(files, log, Append(r.got, Stores[store].prodoutCategory),
                           Ended + 1, now)} :
       LET end == [NoLast EXCEPT !.pol = r.pol, !.run = Ended + 1,
                                 !.events = res.events, !.error = res.error]
           served == [end EXCEPT !.engine = [called |-> TRUE, table |-> get_rec(files)]]
       IN  /\ files' = res.files
           /\ log' = res.log
           /\ stampedAt' = IF "log" \in SeqToSet(res.events) THEN now ELSE stampedAt
           /\ last' = IF r.pol = "load_data" THEN end
                      ELSE IF res.error # "" THEN served
                      ELSE [served EXCEPT !.events = <<"engine">> \o res.events]
    /\ req' = Becomes(r, Done)
    /\ UNCHANGED <<now, store>>

\* The fourth fetch returns and the handler runs to its end without another
\* await: the four to_csv, aggregate_data, process_data, pre_process,
\* update_log and, but in load_data, get_rec.
Refresh(r) ==
    /\ r.pc = "fetch"
    /\ Len(r.got) = 3
    /\ \E res \in {refresh(files, log, Append(r.got, Stores[store].prodoutCategory),
                           Ended + 1, now)} :
       LET end == [NoLast EXCEPT !.pol = r.pol, !.run = Ended + 1,
                                 !.events = res.events, !.error = res.error]
       IN  /\ files' = res.files
           /\ log' = res.log
           /\ stampedAt' = IF "log" \in SeqToSet(res.events) THEN now ELSE stampedAt
           /\ last' = IF res.error # "" \/ r.pol = "load_data" THEN end
                      ELSE [end EXCEPT !.events = res.events \o <<"engine">>,
                                       !.engine = [called |-> TRUE,
                                                   table |-> get_rec(res.files)]]
    /\ req' = Becomes(r, Done)
    /\ UNCHANGED <<now, store>>

\* Time passes.
Tick ==
    /\ \E d \in Deltas : now + d <= MaxClock /\ now' = now + d
    /\ last' = NoLast
    /\ UNCHANGED <<store, log, files, req, stampedAt>>

\* The application's other services change the collections.
StoreUpdate ==
    /\ store < Len(Stores)
    /\ store' = store + 1
    /\ last' = NoLast
    /\ UNCHANGED <<now, log, files, req, stampedAt>>

Next ==
    \/ get_recommendation
    \/ get_recommendation_load
    \/ load_data
    \/ get_recommendation_load_update
    \/ \E r \in BagToSet(req) : FetchReturns(r)
    \/ \E r \in BagToSet(req) : FetchRaises(r)
    \/ \E r \in BagToSet(req) : Refresh(r)
    \/ Tick
    \/ StoreUpdate

Spec == Init /\ [][Next]_vars

(***************************************************************************)
(* The freshness log alone: update_log() and load_log() at instants around *)
(* the hour after the start, to the tick.  The requests whose load_log()   *)
(* returns True stay at their first await.                                 *)
(***************************************************************************)
Instants ==
    { StartTime + sec * TicksPerSec + f :
        sec \in {0, 1, SecsPerHour - 1, SecsPerHour, SecsPerHour + 1},
        f \in 0..(TicksPerSec - 1) }

\* Time passes, up to one of the instants.
TickTo ==
    /\ \E t \in Instants : t > now /\ now' = t
    /\ last' = NoLast
    /\ UNCHANGED <<store, log, files, req, stampedAt>>

NextLog ==
    \/ get_recommendation
    \/ get_recommendation_load_update
    \/ TickTo

SpecLog == Init /\ [][NextLog]_vars

(***************************************************************************)
(* The pipeline alone: one forced-refresh request whose first three        *)
(* fetches have returned, over the document lists a fetch can return, and  *)
(* the step that runs the stages on them.                                  *)
(***************************************************************************)
\* An interaction document: of a customer and a product that exist or are
\* gone, with or without its type.  The _id is the document's position.
InteractionDocs(i) ==
    { Interaction("i" \o ToString(i), c, p, "1") : c \in {"c1", "c9"}, p \in {"p1", "p9"} }
    \cup { InteractionNoType("i" \o ToString(i), c, p) : c \in {"c1", "c9"}, p \in {"p1", "p9"} }

\* The lists find() can return for the interactions: the _id values differ.
RECURSIVE InteractionListsOfLen(_)
InteractionListsOfLen(n) ==
    IF n = 0 THEN { <<>> }
    ELSE { Append(l, d) : l \in InteractionListsOfLen(n - 1), d \in InteractionDocs(n) }

\* the lists of at most max documents
InteractionLists(max) == UNION { InteractionListsOfLen(n) : n \in 0..max }

CustomerLists == { <<>>, <<Customer("c1")>>, <<Customer("c1"), Customer("c2")>> }

\* no product; one of a category that exists, or of one that is gone, or
\* stored without its AvailableQuantity
ProductLists ==
    { <<>>, <<Product("p1", "k1")>>, <<Product("p1", "k9")>>,
      <<ProductNoQuantity("p1", "k1")>> }

InitPipe ==
    /\ now = StartTime
    /\ store = 1
    /\ log = NoLog
    /\ files = NoFiles
    /\ \E i \in InteractionLists(MaxInteractions), c \in CustomerLists, p \in ProductLists :
          req = SetToBag({[AtFirstAwait("load") EXCEPT !.got = <<i, c, p>>]})
    /\ last = NoLast
    /\ stampedAt = -1

NextPipe == \E r \in BagToSet(req) : Refresh(r)

SpecPipe == InitPipe /\ [][NextPipe]_vars

(***************************************************************************)
(* The cleaning alone: pre_process() on a processed.csv that is there.     *)
(***************************************************************************)
\* The rows of a processed.csv of two columns, a name and a number: the name
\* is there or is the text NA, which read_csv() takes for a missing value,
\* and the number is there or the field is empty.
ProcessedRows == { <<a, b>> : a \in {"NA", "Apple", "Pear"}, b \in {"", "1"} }

RECURSIVE RowListsOfLen(_)
RowListsOfLen(n) ==
    IF n = 0 THEN { <<>> }
    ELSE { Append(l, r) : l \in RowListsOfLen(n - 1), r \in ProcessedRows }

\* A processed.csv of a hundred rows: interactionType is empty in 80 of
\* them, productName in 70, description in 75, productId in none.
HundredRows ==
    [exists |-> TRUE,
     cols |-> <<"productId", "interactionType", "productName", "description">>,
     rows |-> [i \in 1..100 |->
                 << "p1",
                    IF i <= 20 THEN "1" ELSE "",
                    IF i <= 30 THEN "Apple" ELSE "",
                    IF i <= 25 THEN "red" ELSE "" >>],
     run |-> 0, from |-> {}, at |-> 0]

\* the files of at most max rows, and the one of a hundred
ProcessedFiles(max) ==
    { [exists |-> TRUE, cols |-> <<"productName", "interactionType">>, rows |-> l,
       run |-> 0, from |-> {}, at |-> 0] :
        l \in UNION { RowListsOfLen(n) : n \in 0..max } }
    \cup { HundredRows }

InitClean ==
    /\ now = StartTime
    /\ store = 1
    /\ log = NoLog
    /\ \E f \in ProcessedFiles(MaxRows) : files = [NoFiles EXCEPT !.processed = f]
    /\ req = EmptyBag
    /\ last = NoLast
    /\ stampedAt = -1

\* pre_process() is called.
Clean ==
    /\ files.processed.exists
    /\ \E res \in {pre_process(files, 1, now)} :
          /\ files' = res.files
          /\ last' = [NoLast EXCEPT !.run = 1, !.error = res.error,
                                    !.events = IF res.error = "" THEN <<"clean">>
                                               ELSE <<>>]
    /\ UNCHANGED <<now, store, log, req, stampedAt>>

NextClean == Clean

SpecClean == InitClean /\ [][NextClean]_vars

(***************************************************************************)
(* Properties.                                                             *)
(***************************************************************************)
\* the order of a refreshing request that serves
StageOrder == <<"extract", "join", "project", "clean", "log", "engine">>

\* the second a datetime falls in, in ticks
Floor(t) == t - (t % TicksPerSec)

\* the call of load_log() made in the step just taken, if any
Checks == {c \in {last.check} : c.done}

WellFormed(f) == f.exists /\ f.prefix = LogPrefix /\ strptime_ok(f.stamp)

\* the requests at an await
InFlight == Started - Ended

\* the step ends request r, which was at an await
Ends(r) == r.pc = "fetch" /\ req' = Becomes(r, Done)

\* C1: when a conditional-refresh request calls the engine, the
\* pre-processed table the engine reads was written by a pipeline run no
\* more than one hour before the request's staleness check.
C1_TableFreshAtCheck ==
    (last.pol = "load_update" /\ last.engine.called /\ last.engine.table.exists) =>
        IF last.run # 0
        THEN last.engine.table.run = last.run /\ last.engine.table.at = now
        ELSE last.check.at - last.engine.table.at <= StaleAfter

\* C2: the log is written only at the end of a full pipeline run: whenever
\* update_log() has run, it last ran in the step in which a run, all of whose
\* stages read that run's files, wrote the pre-processed table.
C2_LogOnlyAfterRun ==
    stampedAt >= 0 =>
        /\ files.pre_processed.exists
        /\ files.pre_processed.at = stampedAt
        /\ files.pre_processed.from = {files.pre_processed.run}

\* C3: a conditional-refresh request whose load_log() returns True goes on
\* to the fetches, and when it returns it has run the pipeline and
\* update_log() and the engine has read the table just written; one whose
\* load_log() returns False fetches nothing, leaves every file and the log
\* as they were, and calls the engine.  No request of this kind reaches the
\* fetches or the engine otherwise.
C3_ConditionalRefresh ==
    [][ /\ (last'.check.done /\ last'.check.error = "") =>
              /\ files' = files /\ log' = log /\ stampedAt' = stampedAt
              /\ IF last'.check.stale
                 THEN /\ last'.pol = "" /\ ~last'.engine.called
                      /\ req' = req (+) SetToBag({[pc |-> "fetch", pol |-> "load_update",
                                                    got |-> <<>>]})
                 ELSE /\ req' = req
                      /\ last'.pol = "load_update" /\ last'.run = 0
                      /\ last'.error = ""
                      /\ last'.engine.called
                      /\ last'.engine.table = files.pre_processed
        /\ \A r \in BagToSet(req') :
              (r.pc = "fetch" /\ r.pol = "load_update" /\ r.got = <<>>
                 /\ CopiesIn(r, req') > CopiesIn(r, req)) =>
                  (last'.check.done /\ last'.check.stale)
        /\ (last'.pol = "load_update" /\ last'.run = 0 /\ last'.error = "") =>
              (last'.check.done /\ ~last'.check.stale)
        /\ \A r \in BagToSet(req) :
              (r.pol = "load_update" /\ Ends(r) /\ last'.error = "") =>
                  /\ last'.pol = "load_update" /\ last'.run = Ended'
                  /\ last'.events = StageOrder
                  /\ last'.engine.called
                  /\ last'.engine.table = files'.pre_processed
                  /\ files'.pre_processed.run = Ended'
                  /\ files'.pre_processed.from = {Ended'}
                  /\ files'.pre_processed.at = now
                  /\ \A n \in SeqToSet(RawNames) : files'[n].run = Ended'
                  /\ WellFormed(log') /\ strptime(log'.stamp) = Floor(now)
                  /\ stampedAt' = now
      ]_vars

\* a conditional-refresh request has run the pipeline and served its table
C3_Witness ==
    /\ last.pol = "load_update" /\ last.error = "" /\ last.run # 0
    /\ last.engine.called /\ last.engine.table.run = last.run
    /\ WellFormed(log) /\ stampedAt = now

\* C4: when a stage of a forced or conditional refresh fails (the run ends
\* without having written the pre-processed table), the request ends with
\* the error, the engine is not called, and the log is what it was.
C4_FailedRunKeepsLog ==
    [][ \A r \in BagToSet(req) :
          (Ends(r)
             /\ ~(files'.pre_processed.run = Ended' /\ files'.pre_processed.at = now)) =>
                /\ last'.run = Ended' /\ last'.error # ""
                /\ ~last'.engine.called
                /\ log' = log
      ]_vars

C4_Witness ==
    /\ last.pol = "load_update" /\ last.run # 0 /\ last.error = "KeyError"
    /\ files.aggregated.run = last.run
    /\ WellFormed(log) /\ load_log(log, now).stale

\* C5: with no log file, load_log() returns True rather than raising.
C5_MissingLogIsStale ==
    \A c \in Checks : ~c.seen.exists => (c.error = "" /\ c.stale)

\* C6: with a log file that is empty, lacks the prefix or holds a stamp
\* that is not day/month/year hour:minute:second, load_log() returns True
\* rather than raising.
C6_MalformedLogIsStale ==
    \A c \in Checks :
        (c.seen.exists /\ ~WellFormed(c.seen)) => (c.error = "" /\ c.stale)

\* C7: at most one pipeline run is in flight (between the start of its
\* first fetch and the end of its update_log) at any time.
C7_OneRunInFlight == InFlight <= 1

\* C8: the table the engine reads was written by one pipeline run that ran
\* to its end, and that run's join, projection and cleaning each read the
\* file the same run had written.
C8_EngineReadsOneRun ==
    (last.engine.called /\ last.engine.table.exists) =>
        /\ last.engine.table.run \in 1..Ended
        /\ last.engine.table.from = {last.engine.table.run}

\* the engine reads the table of a run while aggregated.csv is what a later
\* run, which then failed, has left behind
C8_Witness ==
    /\ last.engine.called /\ last.engine.table.exists
    /\ files.aggregated.exists
    /\ files.aggregated.run # last.engine.table.run

\* C9: once update_log() has run, the log always holds a complete stamp,
\* that of the last update_log(), and no later load_log() raises.
C9_LogStaysWellFormed ==
    /\ stampedAt >= 0 =>
          (WellFormed(log) /\ strptime(log.stamp) = Floor(stampedAt))
    /\ \A c \in Checks : c.stampedAt >= 0 => (WellFormed(c.seen) /\ c.error = "")

\* a load_log() after an update_log(), while another request is at an await
C9_Witness ==
    /\ last.check.done /\ last.check.stampedAt >= 0
    /\ InFlight > 0

\* C10: load_log() returns True iff now is more than one hour after the
\* second in which update_log() last ran: False at exactly one hour and at
\* one hour less a second, True at one hour and a second.
C10_StaleIffOverAnHour ==
    \A c \in Checks :
        c.stampedAt >= 0 =>
            /\ c.error = ""
            /\ c.stale <=> (c.at - Floor(c.stampedAt) > SecsPerHour * TicksPerSec)

\* load_log() exactly one hour after the second of an update_log() that ran
\* later in that second
C10_Witness ==
    /\ last.check.done /\ last.check.stampedAt >= 0
    /\ last.check.stampedAt # Floor(last.check.stampedAt)
    /\ last.check.at - Floor(last.check.stampedAt) = SecsPerHour * TicksPerSec
    /\ ~last.check.stale

\* C11: a forced-refresh request never calls load_log(); what it has done
\* when it ends is a prefix of extract, join, project, clean, update_log,
\* get_rec, the whole of it when nothing raised; then every file is the one
\* this run wrote in this step, each stage's file was computed from this
\* run's files only, the log holds this instant and the engine read the
\* table just written.
C11_ForcedRefreshInOrder ==
    [][ \A r \in BagToSet(req) :
          (r.pol = "load" /\ Ends(r)) =>
             /\ last'.pol = "load" /\ last'.run = Ended'
             /\ ~last'.check.done
             /\ \E n \in 0..Len(StageOrder) : last'.events = SubSeq(StageOrder, 1, n)
             /\ last'.error = "" =>
                   /\ last'.events = StageOrder
                   /\ \A n \in DOMAIN files' :
                         /\ files'[n].exists
                         /\ files'[n].run = Ended'
                         /\ files'[n].at = now
                   /\ \A n \in {"aggregated", "processed", "pre_processed"} :
                         files'[n].from = {Ended'}
                   /\ log' = update_log(now)
                   /\ last'.engine.called
                   /\ last'.engine.table = files'.pre_processed
             /\ last'.error # "" => ~last'.engine.called
      ]_vars

\* a forced refresh has run to its end and served its own table while
\* another request is at an await
C11_Witness ==
    /\ last.pol = "load" /\ last.error = ""
    /\ last.engine.called /\ last.engine.table.run = last.run
    /\ InFlight > 0

\* C12: an unconditional-serve request fetches nothing and leaves the seven
\* files as they were; the engine reads pre_processed.csv as it is, then
\* update_log() runs: the log is the only file the request changes.
C12_ServeChangesOnlyLog ==
    [][ last'.pol = "serve" =>
          /\ files' = files
          /\ req' = req /\ store' = store
          /\ last'.engine.called
          /\ last'.engine.table = files.pre_processed
          /\ last'.events = <<"engine", "log">>
          /\ last'.run = 0 /\ ~last'.check.done /\ last'.error = ""
          /\ log' = update_log(now)
          /\ stampedAt' = now
      ]_vars

\* the engine has been served a table written earlier than this instant, and
\* the log now holds this instant
C12_Witness ==
    /\ last.pol = "serve" /\ last.engine.called
    /\ last.engine.table.exists /\ last.engine.table.at < now
    /\ stampedAt = now /\ strptime(log.stamp) = Floor(now)

\* the cell of row i of a file in the column of that name ("" when the file
\* has no such column)
Cell(f, i, name) ==
    IF name \in SeqToSet(f.cols) THEN f.rows[i][IndexOf(f.cols, name)] ELSE ""

\* the values a file holds in the column of that name
Column(f, name) == { Cell(f, i, name) : i \in DOMAIN f.rows }

\* the rows of interactions.csv whose customer, product and product's
\* category are rows of the other three files
Resolving ==
    { i \in DOMAIN files.interactions.rows :
        /\ Cell(files.interactions, i, "customerId") \in Column(files.customers, "_id")
        /\ \E p \in DOMAIN files.products.rows :
              /\ Cell(files.products, p, "_id") = Cell(files.interactions, i, "productId")
              /\ Cell(files.products, p, "productCatogoryId")
                    \in Column(files.prodoutCategory, "_id") }

\* a run has written the four raw files in the step just taken
RanPipeline == last.run # 0 /\ "extract" \in SeqToSet(last.events)

\* C13: the join raises nothing; aggregated.csv has at most as many rows
\* as interactions.csv, as many exactly when every interaction resolves, and
\* its rows are those of the resolving interactions (the interaction's _id
\* is the first column of the joined table).
C13_JoinLoss ==
    RanPipeline =>
        /\ "join" \in SeqToSet(last.events)
        /\ Len(files.aggregated.rows) <= Len(files.interactions.rows)
        /\ (Len(files.aggregated.rows) = Len(files.interactions.rows))
              <=> (Resolving = DOMAIN files.interactions.rows)
        /\ { files.aggregated.rows[r][1] : r \in DOMAIN files.aggregated.rows }
              = { Cell(files.interactions, i, "_id") : i \in Resolving }

\* the identifier columns a joined table can carry
IdColumns == {"_id", "_id_x", "_id_y"}

\* C14: aggregated.csv carries one identifier column, named _id, holding
\* the interactions' identifiers.
C14_OneIdentifierColumn ==
    (RanPipeline /\ "join" \in SeqToSet(last.events)) =>
        /\ SeqToSet(files.aggregated.cols) \cap IdColumns = {"_id"}
        /\ Column(files.aggregated, "_id") \subseteq Column(files.interactions, "_id")

\* C15: processed.csv has no column of the product's category reference,
\* available quantity, image, price, e-mail, phone number, first or last
\* name, no identifier column of the category, and no column that holds the
\* interactions' identifiers.
C15_ProjectedColumnsGone ==
    (RanPipeline /\ "project" \in SeqToSet(last.events)) =>
        /\ SeqToSet(files.processed.cols)
              \cap {"productCatogoryId", "_id", "AvailableQuantity", "productImage", "price",
                    "email", "customerPhoneNumber", "customerFirstName",
                    "customerLastName"} = {}
        /\ \A j \in DOMAIN files.processed.cols :
              files.processed.rows # <<>> =>
                 \E r \in DOMAIN files.processed.rows :
                    files.processed.rows[r][j] \notin Column(files.interactions, "_id")

\* C16: when a run has written aggregated.csv, process_data() succeeds
\* exactly when every column of its drop list is a column of that file; then
\* the columns of processed.csv are those of aggregated.csv less the drop
\* list; otherwise it raises KeyError and processed.csv is what it was.
\* process_data() on a processed.csv in the place of aggregated.csv raises.
C16_ProjectorSchemaCoupling ==
    [][ \A r \in BagToSet(req) :
          (Ends(r) /\ "join" \in SeqToSet(last'.events)) =>
             /\ ("project" \in SeqToSet(last'.events))
                   <=> (DropList \subseteq SeqToSet(files'.aggregated.cols))
             /\ "project" \in SeqToSet(last'.events) =>
                   /\ files'.processed.run = Ended' /\ files'.processed.at = now
                   /\ SeqToSet(files'.processed.cols)
                         = SeqToSet(files'.aggregated.cols) \ DropList
                   /\ process_data([files' EXCEPT !.aggregated = files'.processed],
                                   Ended', now).error = "KeyError"
             /\ "project" \notin SeqToSet(last'.events) =>
                   /\ last'.error = "KeyError"
                   /\ files'.processed = files.processed
                   /\ files'.pre_processed = files.pre_processed
      ]_vars

\* a run whose aggregated.csv has no AvailableQuantity column has ended with
\* KeyError, and processed.csv is still the one an earlier run wrote
C16_Witness ==
    /\ last.run # 0 /\ last.error = "KeyError"
    /\ files.aggregated.run = last.run
    /\ "AvailableQuantity" \notin SeqToSet(files.aggregated.cols)
    /\ files.processed.exists /\ files.processed.run # last.run

\* C19: a run one of whose fetches returned no document does not fail:
\* join, projection and cleaning each write a table of no rows,
\* update_log() runs and the request returns.
C19_EmptyExtractIsValid ==
    (RanPipeline /\ \E n \in SeqToSet(RawNames) : files[n].rows = <<>>) =>
        /\ last.error = ""
        /\ last.events = StageOrder
        /\ \A n \in {"aggregated", "processed", "pre_processed"} :
              files[n].exists /\ files[n].run = last.run /\ files[n].rows = <<>>
        /\ stampedAt = now

\* pre_process() has just written pre_processed.csv from processed.csv
Cleaned == last.events = <<"clean">>

\* the fields of column j of processed.csv that hold a value
Filled(j) ==
    Cardinality({ i \in DOMAIN files.processed.rows :
                    files.processed.rows[i][j] \notin NaValues })

\* C17: a column of processed.csv is missing from pre_processed.csv exactly
\* when fewer than a quarter of its fields are filled, all rows counted;
\* of a hundred rows, the column with 80 empty fields is removed, those with
\* 70 and with 75 are kept.
C17_ColumnThreshold ==
    Cleaned =>
        /\ \A j \in DOMAIN files.processed.cols :
              (files.processed.cols[j] \notin SeqToSet(files.pre_processed.cols))
                 <=> (4 * Filled(j) < Len(files.processed.rows))
        /\ files.processed = HundredRows =>
              files.pre_processed.cols = <<"productId", "productName", "description">>

\* the hundred rows have been cleaned: the column with 20 filled fields is
\* gone, the one with 25 is there
C17_Witness ==
    /\ Cleaned
    /\ files.processed = HundredRows
    /\ "interactionType" \notin SeqToSet(files.pre_processed.cols)
    /\ "description" \in SeqToSet(files.pre_processed.cols)

\* the columns of processed.csv that pre_processed.csv has
Survivors ==
    { j \in DOMAIN files.processed.cols :
        files.processed.cols[j] \in SeqToSet(files.pre_processed.cols) }

\* the rows of processed.csv, as values, cut down to the surviving columns,
\* those with a missing value left out
CompleteRows ==
    { r \in { SelectIdx(read_csv(files.processed).rows[i], Survivors, 1) :
                i \in DOMAIN files.processed.rows } :
        \A j \in DOMAIN r : r[j] # NaN }

\* pre_processed.csv has no empty field and no two equal rows, its columns
\* are columns of processed.csv, and its rows are the different complete
\* rows of processed.csv in the surviving columns
CleanOutput ==
    /\ \A i \in DOMAIN files.pre_processed.rows :
          \A j \in DOMAIN files.pre_processed.rows[i] : files.pre_processed.rows[i][j] # ""
    /\ \A i, k \in DOMAIN files.pre_processed.rows :
          i # k => files.pre_processed.rows[i] # files.pre_processed.rows[k]
    /\ SeqToSet(files.pre_processed.cols) \subseteq SeqToSet(files.processed.cols)
    /\ SeqToSet(files.pre_processed.rows) = CompleteRows

\* C18: for every processed.csv, what pre_process() writes has
\* no empty field, no two equal rows, columns of processed.csv only, and
\* as rows the different complete rows of processed.csv.
C18_CleanOutputAlways == Cleaned => CleanOutput

\* C18, amended: the same for every processed.csv of which a column
\* survives the threshold.
C18_CleanOutputWhenColumnSurvives ==
    (Cleaned /\ files.pre_processed.cols # <<>>) => CleanOutput

\* of five rows with both columns kept, a row with an empty field is gone
\* and so is a repeated row; the numbers, read as float64 beside the empty
\* field, are written with a fraction
C18_Witness ==
    /\ Cleaned
    /\ Len(files.processed.rows) = 5
    /\ files.pre_processed.cols = <<"productName", "interactionType">>
    /\ files.pre_processed.rows = << <<"Apple", "1.0">>, <<"Pear", "1.0">> >>

\* the rows of aggregated.csv with no empty field in a column that
\* pre_processed.csv still has
FullRows ==
    { r \in DOMAIN files.aggregated.rows :
        \A c \in SeqToSet(files.pre_processed.cols) : Cell(files.aggregated, r, c) # "" }

\* C20: after a whole run, pre_processed.csv still has the interaction's
\* identifier (as _id_x), different in every row, each the identifier of an
\* interaction in interactions.csv; it has one row for each row of
\* aggregated.csv with no empty field in a surviving column.
C20_IdentifierSurvives ==
    (RanPipeline /\ "clean" \in SeqToSet(last.events)) =>
        /\ "_id_x" \in SeqToSet(files.pre_processed.cols)
        /\ Column(files.pre_processed, "_id_x") \subseteq Column(files.interactions, "_id")
        /\ Cardinality(Column(files.pre_processed, "_id_x")) = Len(files.pre_processed.rows)
        /\ Len(files.pre_processed.rows) = Cardinality(FullRows)

\* two interactions of one customer with one product, alike but for the
\* identifier, are both in pre_processed.csv, and a third whose type is
\* missing is not
C20_Witness ==
    /\ RanPipeline /\ "clean" \in SeqToSet(last.events)
    /\ Len(files.pre_processed.rows) >= 2
    /\ Len(files.pre_processed.rows) < Len(files.aggregated.rows)
    /\ \E r1, r2 \in DOMAIN files.pre_processed.rows :
          /\ r1 # r2
          /\ Tail(files.pre_processed.rows[r1]) = Tail(files.pre_processed.rows[r2])
====
